---- MODULE Spec2Model ----
(***************************************************************************)
(* The educator process of berry-sahayak (the variant with quizzes,        *)
(* statistics and doubt collection, src/unnamed/part_001 lines 413-1548).  *)
(* One action per event handler: peer socket events, inbound frames,       *)
(* operator commands typed on readline, timer expiries and the             *)
(* continuations of the two asynchronous backend calls.                    *)
(***************************************************************************)
EXTENDS Integers, Sequences, FiniteSets, TLC

\* ------------------------------------------------------------------ bounds
MaxConns == 3      \* peer sockets accepted during a run of the connection part
MaxPeers == 1      \* peer sockets accepted during a run of the quiz or the doubt part
MaxGen == 2        \* /quiz generation requests started during a run
MaxAnswers == 3    \* answer records kept per quiz
MaxHints == 1      \* hint requests counted per quiz
MaxWindows == 2    \* /doubt windows opened during a run
MaxDoubts == 2     \* doubts collected per window
MaxSockets == 3    \* sockets the learner creates during a run
MaxHintCalls == 2  \* generateHint calls the learner makes during a run

\* ------------------------------------------------------------------ values
\* A nullable JavaScript reference is a sequence of length 0 (null) or 1.
Null == <<>>
Some(x) == <<x>>
Val(r) == r[1]
IsNull(r) == r = <<>>

ConnIds == 1 .. MaxConns
NoConn == 0

Topics == {"t"}
AnswerIndexes == {0, 2}
\* Date.now() when a quiz is installed; the times of the model are
\* milliseconds on a clock that reads StartTime at that moment.
StartTime == 1000
\* The data of a quiz_answer frame: question, answerIndex, timestamp and
\* quizStartTime (0: absent). The learner sends the question of the quiz it
\* displays and the start time the quiz envelope carried.
QuizAnswers ==
  [question : {<<"Quiz: ", "t">>}, answerIndex : AnswerIndexes, timestamp : {2500},
   quizStartTime : {StartTime, 2500}]
\* Answers to the quiz about "t" and to the quiz about "u".
StaleAnswers ==
  [question : {<<"Quiz: ", "t">>, <<"Quiz: ", "u">>}, answerIndex : {0, 1}, timestamp : {2500},
   quizStartTime : {StartTime}]
\* Frames a peer may send as well: an index outside 0..3 (4, -1, 65536), a
\* start time that is absent, earlier or later than the quiz's own, a timestamp
\* at or before the start time.
StatAnswers ==
  [question : {<<"Q">>}, answerIndex : {0, 4, 65536}, timestamp : {2500},
   quizStartTime : {0, 500, StartTime}]
    \cup [question : {<<"Q">>}, answerIndex : {2, -1}, timestamp : {1500},
          quizStartTime : {1500, 2000}]

\* Doubt texts are character sequences; NoText stands for a frame whose data
\* carries no text field (doubt.text is undefined).
NoText == <<"undefined">>
\* The k-th doubt a peer submits in a window carries the k-th of these texts
\* (cyclically): neighbours differ, the first two fall into one group.
DoubtTexts == <<<<"W", "h", "y">>, <<"w", "h", "y">>, <<"H", "o", "w">>>>
TextAt(k) == DoubtTexts[((k - 1) % Len(DoubtTexts)) + 1]
\* Texts for the local grouping: two that differ in case only, two of 31
\* characters that share their first 30, a name every object inherits.
LongPrefix == [i \in 1 .. 30 |-> "x"]
FallbackTexts ==
  {<<"W", "h", "y">>, <<"w", "h", "y">>, <<"H", "o", "w">>, <<"I", "s">>,
   LongPrefix \o <<"a">>, LongPrefix \o <<"b">>,
   <<"C", "o", "n", "s", "t", "r", "u", "c", "t", "o", "r">>}
MaxFallbackDoubts == 4
FallbackLists ==
  UNION {[1 .. n -> [text : FallbackTexts, hasText : {TRUE}]] : n \in 1 .. MaxFallbackDoubts}

VARIABLES
  alive,                  \* the process is running (no exit, no uncaught exception)
  readyState,             \* readyState of every socket the server has accepted
  client,                 \* let client
  status,                 \* let status
  isGeneratingQuiz,       \* let isGeneratingQuiz
  generating,             \* generateQuiz promises still pending
  genSeq,                 \* number of generateQuiz calls made
  currentQuiz,            \* let currentQuiz
  quizStatistics,         \* let quizStatistics
  showStatistics,         \* let showStatistics
  isDoubtActive,          \* let isDoubtActive
  doubtCollection,        \* let doubtCollection
  topDoubts,              \* let topDoubts
  showTopDoubts,          \* let showTopDoubts
  isProcessingDoubts,     \* let isProcessingDoubts
  doubtCollectionTimeout, \* let doubtCollectionTimeout
  timers,                 \* timers armed with setTimeout and neither fired nor cleared
  flushing,               \* processDoubts promises still pending
  winSeq,                 \* number of /doubt windows opened
  out,                    \* what the last handler did: frames sent, notice shown
  learner,                \* the learner process: ws, status, currentQuiz, quizHint,
                          \* isGeneratingHint, hintExpanded, answerFeedback
  sockets,                \* the WebSocket objects the learner has created
  pendingHints,           \* generateHint promises still pending
  hintSeq,                \* number of generateHint calls made
  shown                   \* what the learner's last handler did

connVars == <<readyState, client, status>>
quizVars == <<isGeneratingQuiz, generating, genSeq, currentQuiz, quizStatistics, showStatistics>>
doubtVars == <<isDoubtActive, doubtCollection, topDoubts, showTopDoubts, isProcessingDoubts,
               doubtCollectionTimeout, timers, flushing, winSeq>>
educatorVars == <<alive, connVars, quizVars, doubtVars, out>>
learnerVars == <<learner, sockets, pendingHints, hintSeq, shown>>
vars == <<educatorVars, learnerVars>>

\* ------------------------------------------------------------------ output of a handler
NoFrame == <<>>
Frame(to, type, data) == [to |-> to, type |-> type, data |-> data]
\* op: the handler that ran; on: the socket whose event it handled (NoConn for
\* a command, a timer or a backend callback); replaced: the statistics object a
\* new quiz discarded; raw: the content of an inbound frame that is not an
\* envelope of a known type.
Out(op, on, sent, notice) ==
  [op |-> op, on |-> on, sent |-> sent, notice |-> notice, replaced |-> Null, raw |-> ""]

\* A mutant: the socket's readyState is not looked at.
ClientOpen_AnyState == client # NoConn

\* A mutant: the send is not guarded at all.
ClientOpen_Always == TRUE

\* client && client.readyState === WebSocket.OPEN
ClientOpen == client # NoConn /\ readyState[client] = "open"

\* ------------------------------------------------------------------ the learner's state
\* The learner's sockets are numbered in the order connect() creates them;
\* NoSocket is ws = null.
LearnerSockets == 1 .. MaxSockets
NoSocket == 0

\* What a learner handler did. on: the socket whose event it handled (NoSocket
\* for a command or a hint completion); frame: the type of the inbound frame.
Shown(op, on, sent, notice) ==
  [op |-> op, on |-> on, sent |-> sent, notice |-> notice, frame |-> ""]

\* The module-level variables of client.js before connect() has run.
\* answerSent is not a variable of the program: it records that an answer
\* frame went out for the displayed quiz.
LearnerStart ==
  /\ learner = [ws |-> NoSocket, status |-> "Connecting...", currentQuiz |-> Null,
                quizHint |-> Null, isGeneratingHint |-> FALSE, hintExpanded |-> FALSE,
                answerFeedback |-> Null, answerSent |-> FALSE]
  /\ sockets = [s \in LearnerSockets |-> [readyState |-> "none", listeners |-> FALSE]]
  /\ pendingHints = {}
  /\ hintSeq = 0
  /\ shown = Shown("load", NoSocket, NoFrame, "")

\* ------------------------------------------------------------------ process start
Init ==
  /\ alive = TRUE
  /\ readyState = [c \in ConnIds |-> "none"]
  /\ client = NoConn
  /\ status = "Waiting for connection..."
  /\ isGeneratingQuiz = FALSE
  /\ generating = {}
  /\ genSeq = 0
  /\ currentQuiz = Null
  /\ quizStatistics = Null
  /\ showStatistics = FALSE
  /\ isDoubtActive = FALSE
  /\ doubtCollection = <<>>
  /\ topDoubts = Null
  /\ showTopDoubts = FALSE
  /\ isProcessingDoubts = FALSE
  /\ doubtCollectionTimeout = Null
  /\ timers = {}
  /\ flushing = {}
  /\ winSeq = 0
  /\ out = Out("start", NoConn, NoFrame, "Sahayak - Educator Mode | Waiting for learner connection...")
  /\ LearnerStart

\* The process is gone: no variable of it is left, only how it ended.
Exited(op, notice) ==
  /\ alive' = FALSE
  /\ readyState' = [c \in ConnIds |-> "none"]
  /\ client' = NoConn
  /\ status' = "Waiting for connection..."
  /\ isGeneratingQuiz' = FALSE
  /\ generating' = {}
  /\ genSeq' = 0
  /\ currentQuiz' = Null
  /\ quizStatistics' = Null
  /\ showStatistics' = FALSE
  /\ isDoubtActive' = FALSE
  /\ doubtCollection' = <<>>
  /\ topDoubts' = Null
  /\ showTopDoubts' = FALSE
  /\ isProcessingDoubts' = FALSE
  /\ doubtCollectionTimeout' = Null
  /\ timers' = {}
  /\ flushing' = {}
  /\ winSeq' = 0
  /\ out' = Out(op, NoConn, NoFrame, notice)

\* rl.on('SIGINT'): closes everything and exits.
Sigint ==
  /\ alive
  /\ Exited("sigint", "Shutting down...")
  /\ UNCHANGED learnerVars

\* ------------------------------------------------------------------ peer socket events
\* wss.on('connection'): the new socket becomes client; nothing is done to an
\* earlier socket, whose handlers stay attached.
Accept(c) ==
  /\ alive
  /\ readyState[c] = "none"
  /\ \A d \in ConnIds : d < c => readyState[d] # "none"
  /\ readyState' = [readyState EXCEPT ![c] = "open"]
  /\ client' = c
  /\ status' = "Connected"
  /\ out' = Out("connection", c, NoFrame, "Learner connected")
  /\ UNCHANGED <<alive, quizVars, doubtVars>>
  /\ UNCHANGED learnerVars

\* The peer's close frame arrives: the socket leaves OPEN before its 'close'
\* event is emitted, so client may refer to a socket that is not open.
PeerClosing(c) ==
  /\ alive
  /\ readyState[c] = "open"
  /\ readyState' = [readyState EXCEPT ![c] = "closing"]
  /\ out' = Out("closing", c, NoFrame, "")
  /\ UNCHANGED <<alive, client, status, quizVars, doubtVars>>
  /\ UNCHANGED learnerVars

\* A mutant: the close handler also drops the active quiz and its statistics.
OnClose_DropsQuiz(c) ==
  /\ alive
  /\ readyState[c] \in {"open", "closing"}
  /\ readyState' = [readyState EXCEPT ![c] = "closed"]
  /\ status' = "Disconnected"
  /\ client' = NoConn
  /\ currentQuiz' = Null
  /\ quizStatistics' = Null
  /\ out' = Out("close", c, NoFrame, "Learner disconnected")
  /\ UNCHANGED <<alive, isGeneratingQuiz, generating, genSeq, showStatistics, doubtVars>>
  /\ UNCHANGED learnerVars

\* ws.on('close') of socket c.
OnClose(c) ==
  /\ alive
  /\ readyState[c] \in {"open", "closing"}
  /\ readyState' = [readyState EXCEPT ![c] = "closed"]
  /\ status' = "Disconnected"
  /\ client' = NoConn
  /\ out' = Out("close", c, NoFrame, "Learner disconnected")
  /\ UNCHANGED <<alive, quizVars, doubtVars>>
  /\ UNCHANGED learnerVars

\* ws.on('error') of socket c.
OnError(c) ==
  /\ alive
  /\ readyState[c] \in {"open", "closing"}
  /\ out' = Out("error", c, NoFrame, "Error: ...")
  /\ UNCHANGED <<alive, connVars, quizVars, doubtVars>>
  /\ UNCHANGED learnerVars

\* ------------------------------------------------------------------ operator chat
\* rl.on('line'), regular message branch.
CmdMessage ==
  /\ alive
  /\ IF ClientOpen
       THEN out' = Out("say", NoConn, <<Frame(client, "message", "text")>>, "text")
       ELSE out' = Out("say", NoConn, NoFrame, "No learner connected")
  /\ UNCHANGED <<alive, connVars, quizVars, doubtVars>>
  /\ UNCHANGED learnerVars

\* ws.on('message') of socket c: a frame of type 'message', and every frame
\* that JSON.parse rejects, is shown as a learner message.
OnMessageText(c) ==
  /\ alive
  /\ readyState[c] = "open"
  /\ out' = Out("recv_message", c, NoFrame, "text")
  /\ UNCHANGED <<alive, connVars, quizVars, doubtVars>>
  /\ UNCHANGED learnerVars

\* Frame contents that are not envelopes with a type field: plain text and
\* valid JSON of other shapes.
RawBodies == {"plain text", "null", "42", "\"hi\"", "{\"data\":\"hi\"}", "[1]"}

\* const data = JSON.parse(...) followed by the reads of data.type: JSON.parse
\* throws on plain text, data.type throws on null, and any other value has no
\* type.
ParseFrame(body) ==
  CASE body = "plain text" -> "parse_throws"
    [] body = "null" -> "type_throws"
    [] OTHER -> "no_type"

\* ws.on('message') of socket c for such a frame: the catch shows the raw
\* content; a value without type matches no branch and nothing is shown.
OnRawFrame(c, body) ==
  /\ alive
  /\ readyState[c] = "open"
  /\ out' = [Out("recv_raw", c, NoFrame,
                 IF ParseFrame(body) \in {"parse_throws", "type_throws"} THEN body ELSE "")
               EXCEPT !.raw = body]
  /\ UNCHANGED <<alive, connVars, quizVars, doubtVars>>
  /\ UNCHANGED learnerVars

\* ------------------------------------------------------------------ quiz generation
\* A mutant: the templated quiz marks its second option as correct.
createFallbackQuiz_SecondCorrect(topic) ==
  [question |-> <<"Quiz: ", topic>>,
   hasOptions |-> TRUE,
   options |-> <<<<"Option A about ", topic>>, <<"Option B about ", topic>>,
                 <<"Option C about ", topic>>, <<"Option D about ", topic>>>>,
   correct |-> 1]

\* createFallbackQuiz(topic)
createFallbackQuiz(topic) ==
  [question |-> <<"Quiz: ", topic>>,
   hasOptions |-> TRUE,
   options |-> <<<<"Option A about ", topic>>, <<"Option B about ", topic>>,
                 <<"Option C about ", topic>>, <<"Option D about ", topic>>>>,
   correct |-> 0]

\* JSON objects the text-generation backend may answer with. They are taken
\* as they come: a correct index outside 0..3, or no options array at all.
BackendOptions == <<<<"o0">>, <<"o1">>, <<"o2">>, <<"o3">>>>
BackendQuizzes ==
  {[question |-> <<"Q">>, hasOptions |-> TRUE, options |-> BackendOptions, correct |-> 2],
   [question |-> <<"Q">>, hasOptions |-> TRUE, options |-> BackendOptions, correct |-> 4],
   [question |-> <<"Q">>, hasOptions |-> FALSE, options |-> <<>>, correct |-> 0]}

\* What a strategy's callback meets: "error" (request or exec error),
\* "bad_body" (the HTTP body is not JSON), "no_json" (no {...} in the text),
\* "bad_json" (the {...} does not parse), "object" (a JSON object).
ReplyKinds == {"error", "bad_body", "no_json", "bad_json", "object"}
QuizReplies ==
  [kind : ReplyKinds \ {"object"}, quiz : {createFallbackQuiz("t")}]
    \cup [kind : {"object"}, quiz : BackendQuizzes]

\* generateQuiz, the HTTP strategy (http.request callback and req.on('error')):
\* the quiz the promise resolves with, or Null when tryCommandLine takes over.
generateQuizHttp(topic, reply) ==
  CASE reply.kind = "object" -> Some(reply.quiz)
    [] reply.kind = "no_json" -> Some(createFallbackQuiz(topic))
    [] OTHER -> Null

\* tryCommandLine: the exec callback always resolves.
tryCommandLine(topic, reply) ==
  IF reply.kind = "object" THEN reply.quiz ELSE createFallbackQuiz(topic)

\* String.fromCharCode(65 + n)
FromCharCode65(n) == <<"A", "B", "C", "D", "E", "F">>[n + 1]

\* quiz.options[i]
OptionAt(quiz, i) == IF i + 1 \in DOMAIN quiz.options THEN quiz.options[i + 1] ELSE <<"undefined">>

\* ------------------------------------------------------------------ statistics
\* answers.filter(a => a.isCorrect).length
CorrectCount(answers) == Cardinality({i \in DOMAIN answers : answers[i].isCorrect})

\* The code unit of String.fromCharCode(65 + n): ToUint16 of the sum.
CharCode65(n) == (65 + n) % 65536

\* A mutant: the quotient is truncated to one decimal.
RoundTenths_Truncated(num, den) == (10 * num) \div den

\* Math.round(x * 10) / 10 of the quotient num / den, in tenths.
RoundTenths(num, den) == (2 * 10 * num + den) \div (2 * den)

\* A mutant: every response time enters the mean.
PositiveTimes_All(answers) == DOMAIN answers

\* answers.map(a => a.responseTime).filter(t => t > 0)
PositiveTimes(answers) == {i \in DOMAIN answers : answers[i].responseTime > 0}

\* responseTimes.reduce((sum, t) => sum + t, 0)
RECURSIVE SumTimes(_, _)
SumTimes(answers, idx) ==
  IF idx = {} THEN 0
  ELSE LET i == CHOOSE j \in idx : TRUE
       IN answers[i].responseTime + SumTimes(answers, idx \ {i})

\* A mutant: the hint counter of a quiz without answers is reported as zero.
calculateStatistics_HintsDropped ==
  [totalAnswered |-> 0, averageScore |-> 0, avgResponseTime |-> 0, hintsUsed |-> 0,
   optionCounts |-> [k \in 0 .. 3 |-> 0]]

\* calculateStatistics(); averageScore is in tenths of a percent,
\* avgResponseTime in tenths of a second.
calculateStatistics ==
  IF IsNull(quizStatistics) \/ IsNull(currentQuiz)
    THEN [totalAnswered |-> 0, averageScore |-> 0, avgResponseTime |-> 0, hintsUsed |-> 0,
          optionCounts |-> [k \in 0 .. 3 |-> 0]]
    ELSE LET answers == Val(quizStatistics).answers
             positive == PositiveTimes(answers)
         IN IF Len(answers) = 0
              THEN [totalAnswered |-> 0, averageScore |-> 0, avgResponseTime |-> 0,
                    hintsUsed |-> Val(quizStatistics).hintsUsed,
                    optionCounts |-> [k \in 0 .. 3 |-> 0]]
              ELSE [totalAnswered |-> Len(answers),
                    averageScore |-> RoundTenths(100 * CorrectCount(answers), Len(answers)),
                    avgResponseTime |-> IF positive = {} THEN 0
                                        ELSE RoundTenths(SumTimes(answers, positive),
                                                         1000 * Cardinality(positive)),
                    hintsUsed |-> Val(quizStatistics).hintsUsed,
                    optionCounts |-> [k \in 0 .. 3 |->
                        Cardinality({i \in DOMAIN answers : CharCode65(answers[i].answerIndex) = 65 + k})]]

\* ------------------------------------------------------------------ /quiz
\* rl.on('line'), /quiz branch up to the await.
CmdQuiz(topic) ==
  /\ alive
  /\ (topic # "" /\ ClientOpen) => genSeq < MaxGen
  /\ IF topic = ""
       THEN /\ out' = Out("quiz_cmd", NoConn, NoFrame, "Usage: /quiz [topic]")
            /\ UNCHANGED quizVars
       ELSE IF ~ClientOpen
         THEN /\ out' = Out("quiz_cmd", NoConn, NoFrame, "No learner connected")
              /\ UNCHANGED quizVars
         ELSE /\ isGeneratingQuiz' = TRUE
              /\ genSeq' = genSeq + 1
              /\ generating' = generating \cup {[id |-> genSeq + 1, topic |-> topic, stage |-> "http"]}
              /\ out' = Out("quiz_cmd", NoConn, NoFrame, "Generating quiz")
              /\ UNCHANGED <<currentQuiz, quizStatistics, showStatistics>>
  /\ UNCHANGED <<alive, connVars, doubtVars>>
  /\ UNCHANGED learnerVars

\* A mutant: the statistics of the quiz being replaced are kept.
NewQuizStatistics_Kept ==
  IF IsNull(quizStatistics)
    THEN Some([answers |-> <<>>, hintsUsed |-> 0, startTime |-> StartTime])
    ELSE quizStatistics

\* quizStatistics = { answers: [], hintsUsed: 0, startTime: Date.now() }
NewQuizStatistics == Some([answers |-> <<>>, hintsUsed |-> 0, startTime |-> StartTime])

\* rl.on('line'), /quiz branch after the await: the quiz is installed, then
\* sent. client.send throws on a null client (the catch shows the error) and
\* delivers nothing on a socket that is not open.
StartQuiz(g, quiz) ==
  /\ isGeneratingQuiz' = FALSE
  /\ generating' = generating \ {g}
  /\ currentQuiz' = Some([id |-> g.id, question |-> quiz.question, hasOptions |-> quiz.hasOptions,
                          options |-> quiz.options, correct |-> quiz.correct])
  /\ quizStatistics' = NewQuizStatistics
  /\ showStatistics' = TRUE
  /\ out' = [(IF client = NoConn
                THEN Out("quiz", NoConn, NoFrame, "Error generating quiz")
                ELSE IF readyState[client] = "open"
                  THEN Out("quiz", NoConn, <<Frame(client, "quiz", Val(currentQuiz'))>>, "Quiz sent")
                  ELSE Out("quiz", NoConn, NoFrame, "Quiz sent"))
              EXCEPT !.replaced = quizStatistics]
  /\ UNCHANGED <<alive, connVars, genSeq, doubtVars>>

\* generateQuiz: res.on('end') or req.on('error') of a pending request.
QuizHttpDone(g, reply) ==
  /\ alive
  /\ g \in generating /\ g.stage = "http"
  /\ LET r == generateQuizHttp(g.topic, reply)
     IN IF IsNull(r)
          THEN /\ generating' = (generating \ {g}) \cup {[g EXCEPT !.stage = "shell"]}
               /\ out' = Out("quiz_http", NoConn, NoFrame, "")
               /\ UNCHANGED <<alive, connVars, isGeneratingQuiz, genSeq, currentQuiz,
                              quizStatistics, showStatistics, doubtVars>>
          ELSE StartQuiz(g, Val(r))
  /\ UNCHANGED learnerVars

\* tryCommandLine: the exec callback of a pending request.
QuizShellDone(g, reply) ==
  /\ alive
  /\ g \in generating /\ g.stage = "shell"
  /\ StartQuiz(g, tryCommandLine(g.topic, reply))
  /\ UNCHANGED learnerVars

\* rl.on('line'), close stats.
CmdCloseStats ==
  /\ alive
  /\ showStatistics' = FALSE
  /\ out' = Out("close_stats", NoConn, NoFrame, "")
  /\ UNCHANGED <<alive, connVars, isGeneratingQuiz, generating, genSeq, currentQuiz,
                 quizStatistics, doubtVars>>
  /\ UNCHANGED learnerVars

\* ------------------------------------------------------------------ quiz frames
\* A mutant: the handler does not look for an active quiz.
NoActiveQuiz_Unchecked == FALSE

\* if (!currentQuiz || !quizStatistics)
NoActiveQuiz == IsNull(currentQuiz) \/ IsNull(quizStatistics)

\* answer.timestamp - (answer.quizStartTime || quizStatistics.startTime)
ResponseTime(answer, startTime) ==
  answer.timestamp - (IF answer.quizStartTime # 0 THEN answer.quizStartTime ELSE startTime)

\* ws.on('message') of socket c, quiz_answer. hasData is false for a frame
\* without a data object. Reading a property of undefined or null
\* (answer.answerIndex, currentQuiz.correct) throws, and the catch shows the
\* raw frame. The record keeps the frame's quizStartTime and question for
\* reference only: the program stores neither.
OnQuizAnswer(c, answer, hasData) ==
  /\ alive
  /\ readyState[c] = "open"
  /\ IF NoActiveQuiz
       THEN /\ out' = Out("quiz_answer", c, NoFrame, "No active quiz")
            /\ UNCHANGED quizStatistics
       ELSE IF ~hasData \/ IsNull(currentQuiz) \/ IsNull(quizStatistics)
         THEN /\ out' = Out("quiz_answer", c, NoFrame, "raw frame")
              /\ UNCHANGED quizStatistics
         ELSE LET quiz == Val(currentQuiz)
                  stats == Val(quizStatistics)
                  isCorrect == answer.answerIndex = quiz.correct
                  record ==
                    [answerIndex |-> answer.answerIndex, isCorrect |-> isCorrect,
                     responseTime |-> ResponseTime(answer, stats.startTime),
                     timestamp |-> answer.timestamp, quizStartTime |-> answer.quizStartTime,
                     question |-> answer.question, quiz |-> quiz.id]
                  message == IF isCorrect
                               THEN <<"Correct answer!">>
                               ELSE <<"Wrong answer. The correct answer is ",
                                      FromCharCode65(quiz.correct), ". ">> \o OptionAt(quiz, quiz.correct)
              IN /\ Len(stats.answers) < MaxAnswers
                 /\ quizStatistics' = Some([stats EXCEPT !.answers = Append(@, record)])
                 /\ out' = IF quiz.hasOptions
                             THEN Out("quiz_answer", c,
                                      <<Frame(c, "quiz_feedback", [correct |-> isCorrect, message |-> message])>>,
                                      "Quiz Answer")
                             ELSE Out("quiz_answer", c, NoFrame, "raw frame")
  /\ UNCHANGED <<alive, connVars, isGeneratingQuiz, generating, genSeq, currentQuiz,
                 showStatistics, doubtVars>>
  /\ UNCHANGED learnerVars

\* A mutant: the hint is acknowledged to the peer and counted even when only
\* the statistics object is there.
OnHintRequest_Acknowledged(c) ==
  /\ alive
  /\ readyState[c] = "open"
  /\ IF ~IsNull(quizStatistics)
       THEN /\ Val(quizStatistics).hintsUsed < MaxHints
            /\ quizStatistics' = Some([Val(quizStatistics) EXCEPT !.hintsUsed = @ + 1])
       ELSE UNCHANGED quizStatistics
  /\ out' = Out("hint_request", c, <<Frame(c, "hint_ack", "")>>, "")
  /\ UNCHANGED <<alive, connVars, isGeneratingQuiz, generating, genSeq, currentQuiz,
                 showStatistics, doubtVars>>
  /\ UNCHANGED learnerVars

\* ws.on('message') of socket c, hint_request.
OnHintRequest(c) ==
  /\ alive
  /\ readyState[c] = "open"
  /\ IF ~IsNull(quizStatistics) /\ ~IsNull(currentQuiz)
       THEN /\ Val(quizStatistics).hintsUsed < MaxHints
            /\ quizStatistics' = Some([Val(quizStatistics) EXCEPT !.hintsUsed = @ + 1])
       ELSE UNCHANGED quizStatistics
  /\ out' = Out("hint_request", c, NoFrame, "")
  /\ UNCHANGED <<alive, connVars, isGeneratingQuiz, generating, genSeq, currentQuiz,
                 showStatistics, doubtVars>>
  /\ UNCHANGED learnerVars

\* ------------------------------------------------------------------ doubt summaries
\* String.prototype.toLowerCase, on the letters the model's texts use.
LowerChar(ch) ==
  CASE ch = "W" -> "w" [] ch = "H" -> "h" [] ch = "Y" -> "y" [] ch = "S" -> "s"
    [] ch = "I" -> "i" [] ch = "C" -> "c" [] OTHER -> ch
ToLowerCase(text) == [i \in DOMAIN text |-> LowerChar(text[i])]

\* text.substring(0, n)
Substring0(text, n) == SubSeq(text, 1, IF Len(text) < n THEN Len(text) ELSE n)

PrefixLen == 30

\* d.text.substring(0, 30).toLowerCase()
GroupKey(d) == ToLowerCase(Substring0(d.text, PrefixLen))

\* /^(what|how|why|when|where|who|which|can|could|should|is|are|do|does|did)/i
QuestionWords ==
  {<<"w", "h", "a", "t">>, <<"h", "o", "w">>, <<"w", "h", "y">>, <<"w", "h", "e", "n">>,
   <<"w", "h", "e", "r", "e">>, <<"w", "h", "o">>, <<"w", "h", "i", "c", "h">>, <<"c", "a", "n">>,
   <<"c", "o", "u", "l", "d">>, <<"s", "h", "o", "u", "l", "d">>, <<"i", "s">>, <<"a", "r", "e">>,
   <<"d", "o">>, <<"d", "o", "e", "s">>, <<"d", "i", "d">>}
StartsWithQuestionWord(text) ==
  \E w \in QuestionWords : Len(text) >= Len(w) /\ ToLowerCase(SubSeq(text, 1, Len(w))) = w
EndsWithQuestionMark(text) == Len(text) > 0 /\ text[Len(text)] = "?"

\* toQuestion(text) of createFallbackDoubts, for texts without blanks and
\* without a trailing question mark (the texts of the model).
toQuestion(text) ==
  IF StartsWithQuestionWord(text) THEN text \o <<"?">> ELSE <<"What is ">> \o text \o <<"?">>

\* const grouped = {}: the lower-case names that the object inherits from
\* Object.prototype. grouped[key] finds them without an own property.
InheritedKeys ==
  {<<"c", "o", "n", "s", "t", "r", "u", "c", "t", "o", "r">>,
   <<"_", "_", "p", "r", "o", "t", "o", "_", "_">>}

\* The own keys of `grouped` in insertion order: if (!grouped[key]) creates the
\* entry unless the lookup finds something, own or inherited.
RECURSIVE GroupKeys(_)
GroupKeys(doubts) ==
  IF doubts = <<>> THEN <<>>
  ELSE LET n == Len(doubts)
           before == GroupKeys(SubSeq(doubts, 1, n - 1))
           key == GroupKey(doubts[n])
       IN IF key \in InheritedKeys \/ \E i \in DOMAIN before : before[i] = key
            THEN before
            ELSE Append(before, key)

\* Object.values(grouped): per key, the first text and the count.
Grouped(doubts) ==
  LET keys == GroupKeys(doubts)
      members(k) == {i \in DOMAIN doubts : GroupKey(doubts[i]) = k}
      first(k) == CHOOSE i \in members(k) : \A j \in members(k) : i <= j
  IN [g \in DOMAIN keys |-> [text |-> doubts[first(keys[g])].text, count |-> Cardinality(members(keys[g]))]]

\* Array.prototype.sort((a, b) => b.count - a.count), which is stable.
RECURSIVE InsertByCount(_, _)
InsertByCount(sorted, item) ==
  IF sorted = <<>> THEN <<item>>
  ELSE IF Head(sorted).count >= item.count
         THEN <<Head(sorted)>> \o InsertByCount(Tail(sorted), item)
         ELSE <<item>> \o sorted
RECURSIVE SortByCount(_)
SortByCount(items) ==
  IF items = <<>> THEN <<>>
  ELSE InsertByCount(SortByCount(SubSeq(items, 1, Len(items) - 1)), items[Len(items)])

\* createFallbackDoubts(doubts): Null when it throws, which it does on a
\* doubt without text (d.text.substring of undefined).
createFallbackDoubts(doubts) ==
  IF Len(doubts) = 0 THEN Some(<<>>)
  ELSE IF \E i \in DOMAIN doubts : ~doubts[i].hasText THEN Null
  ELSE LET sorted == Substring0(SortByCount(Grouped(doubts)), 3)
       IN Some([i \in DOMAIN sorted |->
                 [summary |-> toQuestion(sorted[i].text), count |-> sorted[i].count,
                  details |-> sorted[i].text]])

\* Lists the backend may answer with in "topDoubts" (absent counts as empty).
BackendItem(n) ==
  LET digit == <<"1", "2", "3", "4">>[n]
  IN [summary |-> <<"s", digit>>, count |-> n, details |-> <<"d", digit>>]
BackendTopDoubts ==
  {<<>>, <<BackendItem(1)>>,
   <<BackendItem(1), BackendItem(2), BackendItem(3), BackendItem(4)>>}
DoubtReplies ==
  [kind : ReplyKinds \ {"object"}, topDoubts : {<<>>}]
    \cup [kind : {"object"}, topDoubts : BackendTopDoubts]

\* processDoubts, the HTTP strategy: the list the promise resolves with, or
\* Null when tryCommandLineDoubts takes over (also when the fallback throws
\* inside the try block).
processDoubtsHttp(doubts, reply) ==
  CASE reply.kind = "object" -> Some(reply.topDoubts)
    [] reply.kind = "no_json" -> createFallbackDoubts(doubts)
    [] OTHER -> Null

\* The summary normalisation in tryCommandLineDoubts.
ShellItem(doubt) ==
  [summary |-> IF EndsWithQuestionMark(doubt.summary) THEN doubt.summary
               ELSE IF StartsWithQuestionWord(doubt.summary) THEN doubt.summary \o <<"?">>
               ELSE <<"What is ">> \o doubt.summary \o <<"?">>,
   count |-> doubt.count,
   details |-> doubt.details]

\* tryCommandLineDoubts: the list the promise resolves with, or Null when the
\* fallback throws out of the exec callback.
tryCommandLineDoubts(doubts, reply) ==
  IF reply.kind = "object" /\ Len(reply.topDoubts) > 0
    THEN Some([i \in DOMAIN reply.topDoubts |-> ShellItem(reply.topDoubts[i])])
    ELSE createFallbackDoubts(doubts)

\* ------------------------------------------------------------------ doubt window
\* A timer handle: the window it was armed in and the number of doubts
\* collected when it was armed (0: armed by /doubt).
Handle(win, k) == [win |-> win, k |-> k]

\* A mutant: the pending timer is not cleared.
ClearTimeout_Skipped(set, ref) == set

\* if (doubtCollectionTimeout) clearTimeout(doubtCollectionTimeout)
ClearTimeout(set, ref) == IF IsNull(ref) THEN set ELSE set \ {Val(ref)}

\* A mutant: the summarizer is handed the list without its last doubt.
processAndDisplayDoubtsBegin_DropsLast ==
  IF Len(doubtCollection) = 0
    THEN /\ isDoubtActive' = FALSE
         /\ showTopDoubts' = FALSE
         /\ UNCHANGED <<isProcessingDoubts, topDoubts, flushing>>
    ELSE /\ isDoubtActive' = FALSE
         /\ isProcessingDoubts' = TRUE
         /\ showTopDoubts' = TRUE
         /\ topDoubts' = Null
         /\ flushing' = flushing \cup {[win |-> winSeq,
                                         doubts |-> SubSeq(doubtCollection, 1, Len(doubtCollection) - 1),
                                         stage |-> "http"]}

\* A mutant: the summarizer is handed the first doubt only.
processAndDisplayDoubtsBegin_FirstOnly ==
  IF Len(doubtCollection) = 0
    THEN /\ isDoubtActive' = FALSE
         /\ showTopDoubts' = FALSE
         /\ UNCHANGED <<isProcessingDoubts, topDoubts, flushing>>
    ELSE /\ isDoubtActive' = FALSE
         /\ isProcessingDoubts' = TRUE
         /\ showTopDoubts' = TRUE
         /\ topDoubts' = Null
         /\ flushing' = flushing \cup {[win |-> winSeq, doubts |-> SubSeq(doubtCollection, 1, 1),
                                         stage |-> "http"]}

\* processAndDisplayDoubts up to the await.
processAndDisplayDoubtsBegin ==
  IF Len(doubtCollection) = 0
    THEN /\ isDoubtActive' = FALSE
         /\ showTopDoubts' = FALSE
         /\ UNCHANGED <<isProcessingDoubts, topDoubts, flushing>>
    ELSE /\ isDoubtActive' = FALSE
         /\ isProcessingDoubts' = TRUE
         /\ showTopDoubts' = TRUE
         /\ topDoubts' = Null
         /\ flushing' = flushing \cup {[win |-> winSeq, doubts |-> doubtCollection, stage |-> "http"]}

\* processAndDisplayDoubts after the await.
processAndDisplayDoubtsEnd(f, processed) ==
  /\ flushing' = flushing \ {f}
  /\ topDoubts' = Some(processed)
  /\ showTopDoubts' = TRUE
  /\ isProcessingDoubts' = FALSE
  /\ timers' = ClearTimeout(timers, doubtCollectionTimeout)
  /\ doubtCollectionTimeout' = Null
  /\ out' = Out("flushed", NoConn, NoFrame, "Top critical doubts identified")
  /\ UNCHANGED <<alive, connVars, quizVars, isDoubtActive, doubtCollection, winSeq>>

\* rl.on('line'), /doubt branch.
CmdDoubt ==
  /\ alive
  /\ ClientOpen => winSeq < MaxWindows
  /\ IF ~ClientOpen
       THEN /\ out' = Out("doubt_cmd", NoConn, NoFrame, "No learner connected")
            /\ UNCHANGED doubtVars
       ELSE LET timer == Handle(winSeq + 1, 0)
            IN /\ isDoubtActive' = TRUE
               /\ doubtCollection' = <<>>
               /\ topDoubts' = Null
               /\ isProcessingDoubts' = FALSE
               /\ showTopDoubts' = TRUE
               /\ out' = Out("doubt_cmd", NoConn, <<Frame(client, "doubt", [active |-> TRUE])>>,
                             "Doubt collection started")
               /\ timers' = ClearTimeout(timers, doubtCollectionTimeout) \cup {timer}
               /\ doubtCollectionTimeout' = Some(timer)
               /\ winSeq' = winSeq + 1
               /\ UNCHANGED flushing
  /\ UNCHANGED <<alive, connVars, quizVars>>
  /\ UNCHANGED learnerVars

\* rl.on('line'), /process branch.
CmdProcess ==
  /\ alive
  /\ IF ~isDoubtActive
       THEN /\ out' = Out("process_cmd", NoConn, NoFrame, "No active doubt collection")
            /\ UNCHANGED doubtVars
       ELSE IF Len(doubtCollection) = 0
         THEN /\ out' = Out("process_cmd", NoConn, NoFrame, "No doubts collected yet")
              /\ UNCHANGED doubtVars
         ELSE /\ timers' = ClearTimeout(timers, doubtCollectionTimeout)
              /\ doubtCollectionTimeout' = Null
              /\ processAndDisplayDoubtsBegin
              /\ out' = Out("process_cmd", NoConn, NoFrame, "Processing doubts immediately")
              /\ UNCHANGED <<doubtCollection, winSeq>>
  /\ UNCHANGED <<alive, connVars, quizVars>>
  /\ UNCHANGED learnerVars

\* The callback of a pending timer runs. The one armed by /doubt closes an
\* empty window; the one armed by a submission does nothing on an empty list.
OnTimeout(h) ==
  /\ alive
  /\ h \in timers
  /\ timers' = timers \ {h}
  /\ IF Len(doubtCollection) > 0
       THEN /\ processAndDisplayDoubtsBegin
            /\ out' = Out("timeout", NoConn, NoFrame, "Processing doubts")
       ELSE IF h.k = 0
         THEN /\ isDoubtActive' = FALSE
              /\ out' = Out("timeout", NoConn, NoFrame, "No doubts received from learners")
              /\ UNCHANGED <<isProcessingDoubts, topDoubts, showTopDoubts, flushing>>
         ELSE /\ out' = Out("timeout", NoConn, NoFrame, "")
              /\ UNCHANGED <<isDoubtActive, isProcessingDoubts, topDoubts, showTopDoubts, flushing>>
  /\ UNCHANGED <<alive, connVars, quizVars, doubtCollection, doubtCollectionTimeout, winSeq>>
  /\ UNCHANGED learnerVars

\* processDoubts: res.on('end') or req.on('error') of a pending request.
DoubtsHttpDone(f, reply) ==
  /\ alive
  /\ f \in flushing /\ f.stage = "http"
  /\ LET r == processDoubtsHttp(f.doubts, reply)
     IN IF IsNull(r)
          THEN /\ flushing' = (flushing \ {f}) \cup {[f EXCEPT !.stage = "shell"]}
               /\ out' = Out("doubts_http", NoConn, NoFrame, "")
               /\ UNCHANGED <<alive, connVars, quizVars, isDoubtActive, doubtCollection, topDoubts,
                              showTopDoubts, isProcessingDoubts, doubtCollectionTimeout, timers, winSeq>>
          ELSE processAndDisplayDoubtsEnd(f, Val(r))
  /\ UNCHANGED learnerVars

\* tryCommandLineDoubts: the exec callback of a pending request. An exception
\* thrown out of the callback ends the process.
DoubtsShellDone(f, reply) ==
  /\ alive
  /\ f \in flushing /\ f.stage = "shell"
  /\ reply.kind # "bad_body"
  /\ LET r == tryCommandLineDoubts(f.doubts, reply)
     IN IF IsNull(r)
          THEN Exited("crash", "TypeError")
          ELSE processAndDisplayDoubtsEnd(f, Val(r))
  /\ UNCHANGED learnerVars

\* rl.on('line'), close doubts.
CmdCloseDoubts ==
  /\ alive
  /\ showTopDoubts' = FALSE
  /\ topDoubts' = Null
  /\ out' = Out("close_doubts", NoConn, NoFrame, "")
  /\ UNCHANGED <<alive, connVars, quizVars, isDoubtActive, doubtCollection, isProcessingDoubts,
                 doubtCollectionTimeout, timers, flushing, winSeq>>
  /\ UNCHANGED learnerVars

\* A mutant: submissions are taken whether or not a window is open.
DoubtWindowClosed_Unchecked == FALSE

\* if (!isDoubtActive)
DoubtWindowClosed == ~isDoubtActive

\* ws.on('message') of socket c, doubt_submission. shape "no_data": the frame
\* has no data object, reading doubt.text throws before the push; "no_text":
\* data has no text, doubt.text.substring throws after the push. The catch
\* shows the raw frame either way.
SubmissionShapes == {"ok", "no_text", "no_data"}
OnDoubtSubmission(c, shape) ==
  /\ alive
  /\ readyState[c] = "open"
  /\ IF DoubtWindowClosed
       THEN /\ out' = Out("doubt_submission", c, NoFrame, "Doubt collection not active")
            /\ UNCHANGED <<doubtCollection, doubtCollectionTimeout, timers>>
       ELSE IF shape = "no_data"
         THEN /\ out' = Out("doubt_submission", c, NoFrame, "raw frame")
              /\ UNCHANGED <<doubtCollection, doubtCollectionTimeout, timers>>
         ELSE /\ Len(doubtCollection) < MaxDoubts
              /\ doubtCollection' = Append(doubtCollection,
                                           [text |-> IF shape = "ok" THEN TextAt(Len(doubtCollection) + 1) ELSE NoText,
                                            hasText |-> shape = "ok"])
              /\ IF shape = "ok"
                   THEN LET timer == Handle(winSeq, Len(doubtCollection) + 1)
                        IN /\ timers' = ClearTimeout(timers, doubtCollectionTimeout) \cup {timer}
                           /\ doubtCollectionTimeout' = Some(timer)
                           /\ out' = Out("doubt_submission", c, NoFrame, "Doubt received")
                   ELSE /\ out' = Out("doubt_submission", c, NoFrame, "raw frame")
                        /\ UNCHANGED <<doubtCollectionTimeout, timers>>
  /\ UNCHANGED <<alive, connVars, quizVars, isDoubtActive, topDoubts, showTopDoubts,
                 isProcessingDoubts, flushing, winSeq>>
  /\ UNCHANGED learnerVars

\* ------------------------------------------------------------------ the learner's socket
\* ws && ws.readyState === WebSocket.OPEN
LearnerOpen == learner.ws # NoSocket /\ sockets[learner.ws].readyState = "open"

\* A mutant: connect() leaves the previous socket and its listeners alone.
connect_KeepsPrevious(op) ==
  LET new == CHOOSE s \in LearnerSockets :
               /\ sockets[s].readyState = "none"
               /\ \A r \in LearnerSockets : r < s => sockets[r].readyState # "none"
  IN /\ \E s \in LearnerSockets : sockets[s].readyState = "none"
     /\ sockets' = [sockets EXCEPT ![new] = [readyState |-> "connecting", listeners |-> TRUE]]
     /\ learner' = [learner EXCEPT !.ws = new, !.status = "Connecting..."]
     /\ shown' = Shown(op, new, NoFrame, "Connecting to educator")
     /\ UNCHANGED <<pendingHints, hintSeq>>

\* connect(): the previous socket loses its listeners and is closed, then a
\* new socket is created and gets the four listeners.
connect(op) ==
  LET old == learner.ws
      detached ==
        IF old = NoSocket THEN sockets
        ELSE [sockets EXCEPT ![old] =
                [readyState |-> IF @.readyState \in {"connecting", "open"} THEN "closing"
                                ELSE @.readyState,
                 listeners |-> FALSE]]
      new == CHOOSE s \in LearnerSockets :
               /\ detached[s].readyState = "none"
               /\ \A r \in LearnerSockets : r < s => detached[r].readyState # "none"
  IN /\ \E s \in LearnerSockets : sockets[s].readyState = "none"
     /\ sockets' = [detached EXCEPT ![new] = [readyState |-> "connecting", listeners |-> TRUE]]
     /\ learner' = [learner EXCEPT !.ws = new, !.status = "Connecting..."]
     /\ shown' = Shown(op, new, NoFrame, "Connecting to educator")
     /\ UNCHANGED <<pendingHints, hintSeq>>

\* setTimeout(() => { connect(); ... }, 100) at the end of client.js.
LearnerBoot ==
  /\ shown.op = "load"
  /\ connect("boot")
  /\ UNCHANGED educatorVars

\* rl.on('line'), reconnect command.
LearnerCmdReconnect ==
  /\ shown.op # "load"
  /\ IF learner.status \in {"Disconnected", "Error"}
       THEN connect("reconnect")
       ELSE /\ shown' = Shown("reconnect", NoSocket, NoFrame, "Already connected")
            /\ UNCHANGED <<learner, sockets, pendingHints, hintSeq>>
  /\ UNCHANGED educatorVars

\* The handshake of socket s completes; ws.on('open') runs if it is attached.
LearnerOnOpen(s) ==
  /\ sockets[s].readyState = "connecting"
  /\ sockets' = [sockets EXCEPT ![s].readyState = "open"]
  /\ IF sockets[s].listeners
       THEN /\ learner' = [learner EXCEPT !.status = "Connected"]
            /\ shown' = Shown("open", s, NoFrame, "Connected to educator!")
       ELSE /\ shown' = Shown("open", s, NoFrame, "")
            /\ UNCHANGED learner
  /\ UNCHANGED <<pendingHints, hintSeq, educatorVars>>

\* Socket s fails (refused, reset); ws.on('error') runs if it is attached. The
\* socket's close event follows.
LearnerOnError(s) ==
  /\ sockets[s].readyState \in {"connecting", "open"}
  /\ sockets' = [sockets EXCEPT ![s].readyState = "closing"]
  /\ IF sockets[s].listeners
       THEN /\ learner' = [learner EXCEPT !.status = "Error"]
            /\ shown' = Shown("error", s, NoFrame, "Connection error")
       ELSE /\ shown' = Shown("error", s, NoFrame, "")
            /\ UNCHANGED learner
  /\ UNCHANGED <<pendingHints, hintSeq, educatorVars>>

\* Socket s is closed; ws.on('close') runs if it is attached. ws keeps
\* referring to the closed socket.
LearnerOnClose(s) ==
  /\ sockets[s].readyState \in {"open", "closing"}
  /\ sockets' = [sockets EXCEPT ![s].readyState = "closed"]
  /\ IF sockets[s].listeners
       THEN /\ learner' = [learner EXCEPT !.status = "Disconnected"]
            /\ shown' = Shown("close", s, NoFrame, "Disconnected from educator")
       ELSE /\ shown' = Shown("close", s, NoFrame, "")
            /\ UNCHANGED learner
  /\ UNCHANGED <<pendingHints, hintSeq, educatorVars>>

\* ------------------------------------------------------------------ the learner's frames
\* The data of a quiz envelope as the educator sends it.
LearnerQuiz(id, topic) ==
  LET quiz == createFallbackQuiz(topic)
  IN [id |-> id, question |-> quiz.question, hasOptions |-> quiz.hasOptions,
      options |-> quiz.options, correct |-> quiz.correct]

\* Frames that reach the learner: the envelopes the educator sends, and text
\* that is not JSON.
FrameKinds == {"message", "quiz t", "quiz u", "quiz_feedback", "doubt", "plain text"}
FrameType(kind) ==
  CASE kind \in {"quiz t", "quiz u"} -> "quiz"
    [] kind = "plain text" -> ""
    [] OTHER -> kind

\* ws.on('message') of socket s: only 'message' and 'quiz' have a branch; an
\* envelope of another type is parsed and dropped; the catch shows text that
\* does not parse.
LearnerOnMessage(s, kind) ==
  /\ sockets[s].readyState = "open"
  /\ sockets[s].listeners
  /\ CASE kind = "message" ->
            /\ shown' = [Shown("message", s, NoFrame, "text") EXCEPT !.frame = "message"]
            /\ UNCHANGED learner
       [] kind \in {"quiz t", "quiz u"} ->
            /\ learner' = [learner EXCEPT
                 !.currentQuiz = Some(IF kind = "quiz t" THEN LearnerQuiz(1, "t") ELSE LearnerQuiz(2, "u")),
                 !.quizHint = Null,
                 !.isGeneratingHint = FALSE,
                 !.answerSent = FALSE]
            /\ shown' = [Shown("message", s, NoFrame, "New quiz received!") EXCEPT !.frame = "quiz"]
       [] kind = "plain text" ->
            /\ shown' = Shown("message", s, NoFrame, "plain text")
            /\ UNCHANGED learner
       [] OTHER ->
            /\ shown' = [Shown("message", s, NoFrame, "") EXCEPT !.frame = FrameType(kind)]
            /\ UNCHANGED learner
  /\ UNCHANGED <<sockets, pendingHints, hintSeq, educatorVars>>

\* ------------------------------------------------------------------ the learner's hints
\* What generateHint meets: "response" (the backend's text), "empty" (a reply
\* without text), "error" (request error or a body that is not JSON, which
\* pass the call to tryCommandLineHint).
HintReplies == {"response", "empty", "error"}
DefaultHint == "Think about the key concepts in the question."

\* The hint a call for `question` resolves with: the backend's text is about
\* the question of the prompt.
HintFor(question, text) == [question |-> question, text |-> text]

\* rl.on('line'), /hint command.
LearnerCmdHint ==
  /\ shown.op # "load"
  /\ IF IsNull(learner.currentQuiz)
       THEN /\ shown' = Shown("hint_cmd", NoSocket, NoFrame, "No active quiz")
            /\ UNCHANGED <<learner, pendingHints, hintSeq>>
       ELSE IF ~IsNull(learner.quizHint)
         THEN /\ learner' = [learner EXCEPT !.hintExpanded = ~@]
              /\ shown' = Shown("hint_cmd", NoSocket, NoFrame, "")
              /\ UNCHANGED <<pendingHints, hintSeq>>
         ELSE IF learner.isGeneratingHint
           THEN /\ shown' = Shown("hint_cmd", NoSocket, NoFrame, "Generating hint, please wait...")
                /\ UNCHANGED <<learner, pendingHints, hintSeq>>
           ELSE /\ hintSeq < MaxHintCalls
                /\ learner' = [learner EXCEPT !.isGeneratingHint = TRUE]
                /\ hintSeq' = hintSeq + 1
                /\ pendingHints' = pendingHints \cup
                     {[id |-> hintSeq + 1, question |-> Val(learner.currentQuiz).question,
                       stage |-> "http"]}
                /\ shown' = Shown("hint_cmd", NoSocket, NoFrame, "")
  /\ UNCHANGED <<sockets, educatorVars>>

\* The .then of generateHint(...) in the /hint branch.
HintResolved(h, hint) ==
  /\ pendingHints' = pendingHints \ {h}
  /\ learner' = [learner EXCEPT !.isGeneratingHint = FALSE, !.quizHint = Some(hint),
                                !.hintExpanded = TRUE]
  /\ shown' = Shown("hint", NoSocket, NoFrame, "Hint generated")
  /\ UNCHANGED <<sockets, hintSeq, educatorVars>>

\* generateHint: res.on('end') or req.on('error') of a pending request.
HintHttpDone(h, reply) ==
  /\ h \in pendingHints /\ h.stage = "http"
  /\ CASE reply = "response" -> HintResolved(h, HintFor(h.question, "response"))
       [] reply = "empty" -> HintResolved(h, HintFor(h.question, DefaultHint))
       [] OTHER ->
            /\ pendingHints' = (pendingHints \ {h}) \cup {[h EXCEPT !.stage = "shell"]}
            /\ shown' = Shown("hint_http", NoSocket, NoFrame, "")
            /\ UNCHANGED <<learner, sockets, hintSeq, educatorVars>>

\* tryCommandLineHint: the exec callback of a pending request.
HintShellDone(h, reply) ==
  /\ h \in pendingHints /\ h.stage = "shell"
  /\ IF reply = "response"
       THEN HintResolved(h, HintFor(h.question, "response"))
       ELSE HintResolved(h, HintFor(h.question, DefaultHint))

\* rl.on('line'), toggle command while a quiz with a hint is displayed.
ToggleApplies == ~IsNull(learner.currentQuiz) /\ ~IsNull(learner.quizHint)

\* ------------------------------------------------------------------ the learner's input
\* The last branch of rl.on('line'): a regular message.
RegularMessage(op, text) ==
  IF LearnerOpen
    THEN /\ shown' = Shown(op, NoSocket, <<Frame(learner.ws, "message", text)>>, text)
         /\ UNCHANGED learner
    ELSE /\ shown' = Shown(op, NoSocket, NoFrame, "Not connected to educator")
         /\ UNCHANGED learner

\* rl.on('line') for the input A, B, C or D (index 0..3).
LearnerCmdAnswer(answerIndex) ==
  /\ shown.op # "load"
  /\ IF IsNull(learner.currentQuiz)
       THEN RegularMessage("answer", FromCharCode65(answerIndex))
       ELSE IF ~IsNull(learner.answerFeedback)
         THEN /\ shown' = Shown("answer", NoSocket, NoFrame, "You have already answered this quiz")
              /\ UNCHANGED learner
         ELSE IF LearnerOpen
           THEN /\ shown' = Shown("answer", NoSocket,
                                  <<Frame(learner.ws, "quiz_answer",
                                          [question |-> Val(learner.currentQuiz).question,
                                           answerIndex |-> answerIndex,
                                           timestamp |-> 2500,
                                           quizStartTime |-> StartTime])>>,
                                  "Answered")
                /\ learner' = [learner EXCEPT !.answerSent = TRUE]
           ELSE /\ shown' = Shown("answer", NoSocket, NoFrame, "Not connected to educator")
                /\ UNCHANGED learner
  /\ UNCHANGED <<sockets, pendingHints, hintSeq, educatorVars>>

\* rl.on('line') for the input toggle.
LearnerCmdToggle ==
  /\ shown.op # "load"
  /\ IF ToggleApplies
       THEN /\ learner' = [learner EXCEPT !.hintExpanded = ~@]
            /\ shown' = Shown("toggle", NoSocket, NoFrame, "")
       ELSE RegularMessage("toggle", "toggle")
  /\ UNCHANGED <<sockets, pendingHints, hintSeq, educatorVars>>

\* rl.on('line') for any other non-empty input.
LearnerCmdText ==
  /\ shown.op # "load"
  /\ IF ~IsNull(learner.currentQuiz)
       THEN /\ shown' = Shown("text", NoSocket, NoFrame, "Please answer the quiz")
            /\ UNCHANGED learner
       ELSE RegularMessage("text", "text")
  /\ UNCHANGED <<sockets, pendingHints, hintSeq, educatorVars>>

\* ------------------------------------------------------------------ specification
SocketStep(n) == \E c \in 1 .. n : Accept(c) \/ PeerClosing(c) \/ OnClose(c) \/ OnError(c)

ConnStep ==
  \/ SocketStep(MaxConns)
  \/ \E c \in ConnIds : OnMessageText(c)
  \/ \E c \in ConnIds, body \in RawBodies : OnRawFrame(c, body)
  \/ CmdMessage
  \/ Sigint

QuizStep ==
  \/ \E topic \in Topics \cup {""} : CmdQuiz(topic)
  \/ \E g \in generating, reply \in QuizReplies : QuizHttpDone(g, reply)
  \/ \E g \in generating, reply \in QuizReplies : QuizShellDone(g, reply)
  \/ CmdCloseStats
  \/ \E c \in ConnIds, answer \in QuizAnswers, hasData \in BOOLEAN : OnQuizAnswer(c, answer, hasData)
  \/ \E c \in ConnIds : OnHintRequest(c)

DoubtStep(shapes) ==
  \/ CmdDoubt
  \/ CmdProcess
  \/ CmdCloseDoubts
  \/ \E h \in timers : OnTimeout(h)
  \/ \E f \in flushing, reply \in DoubtReplies : DoubtsHttpDone(f, reply)
  \/ \E f \in flushing, reply \in DoubtReplies : DoubtsShellDone(f, reply)
  \/ \E c \in ConnIds, shape \in shapes : OnDoubtSubmission(c, shape)

Next == ConnStep \/ QuizStep \/ DoubtStep(SubmissionShapes)

Spec == Init /\ [][Next]_vars

\* The quiz handlers and the doubt handlers share the connection only: neither
\* reads or writes the other's variables. Each part is checked with the socket
\* events and without the other parts.
ConnNext == ConnStep
SpecConn == Init /\ [][ConnNext]_vars

QuizNext == SocketStep(MaxPeers) \/ QuizStep
SpecQuiz == Init /\ [][QuizNext]_vars

\* Doubt frames with a text, or without a data object.
DoubtNext == SocketStep(MaxPeers) \/ DoubtStep({"ok", "no_data"})
SpecDoubt == Init /\ [][DoubtNext]_vars

\* Doubt frames of every shape, also those whose data has no text.
DoubtRawNext == SocketStep(MaxPeers) \/ DoubtStep(SubmissionShapes)
SpecDoubtRaw == Init /\ [][DoubtRawNext]_vars

\* The doubt part with the one thing the runtime guarantees: an armed timer
\* that is not cleared fires. Whether the backend ever answers, and what the
\* operator and the peer do, is left open.
SpecDoubtLive ==
  Init /\ [][DoubtNext]_vars /\ WF_vars(\E h \in timers : OnTimeout(h))

\* The doubt part when timers fire and every backend call is answered in the
\* end; windows and submissions are bounded, so the peer stops submitting.
SpecDoubtFair ==
  /\ Init /\ [][DoubtNext]_vars
  /\ WF_vars(\E h \in timers : OnTimeout(h))
  /\ WF_vars(\E f \in flushing, reply \in DoubtReplies : DoubtsHttpDone(f, reply))
  /\ WF_vars(\E f \in flushing, reply \in DoubtReplies : DoubtsShellDone(f, reply))

\* The statistics of a well-formed quiz over the answer frames a peer may send.
StatsNext ==
  \/ \E c \in 1 .. MaxPeers : Accept(c)
  \/ \E topic \in Topics : CmdQuiz(topic)
  \/ \E g \in generating :
       QuizHttpDone(g, [kind |-> "object",
                        quiz |-> [question |-> <<"Q">>, hasOptions |-> TRUE,
                                  options |-> BackendOptions, correct |-> 2]])
  \/ \E c \in ConnIds, answer \in StatAnswers : OnQuizAnswer(c, answer, TRUE)
SpecStats == Init /\ [][StatsNext]_vars

\* A session in which a quiz and a doubt window are in use together, with one
\* answer frame, one backend reply per call and the socket events.
SessionNext ==
  \/ SocketStep(MaxPeers)
  \/ \E topic \in Topics : CmdQuiz(topic)
  \/ \E g \in generating :
       QuizHttpDone(g, [kind |-> "no_json", quiz |-> createFallbackQuiz(g.topic)])
  \/ \E c \in ConnIds :
       OnQuizAnswer(c, [question |-> <<"Quiz: ", "t">>, answerIndex |-> 0, timestamp |-> 2500,
                       quizStartTime |-> StartTime], TRUE)
  \/ \E c \in ConnIds : OnHintRequest(c)
  \/ CmdDoubt
  \/ \E c \in ConnIds : OnDoubtSubmission(c, "ok")
  \/ \E h \in timers : OnTimeout(h)
  \/ \E f \in flushing : DoubtsHttpDone(f, [kind |-> "no_json", topDoubts |-> <<>>])
SpecSession == Init /\ [][SessionNext]_vars

\* createFallbackDoubts over lists of doubts: a window whose doubts were just
\* flushed on expiry of its timer, and a backend that gives no usable answer,
\* so that the stored result is the local grouping.
InitFallback ==
  \E doubts \in FallbackLists :
    /\ alive = TRUE
    /\ readyState = [c \in ConnIds |-> IF c = 1 THEN "open" ELSE "none"]
    /\ client = 1
    /\ status = "Connected"
    /\ isGeneratingQuiz = FALSE
    /\ generating = {}
    /\ genSeq = 0
    /\ currentQuiz = Null
    /\ quizStatistics = Null
    /\ showStatistics = FALSE
    /\ isDoubtActive = FALSE
    /\ doubtCollection = doubts
    /\ topDoubts = Null
    /\ showTopDoubts = TRUE
    /\ isProcessingDoubts = TRUE
    /\ doubtCollectionTimeout = Some(Handle(1, Len(doubts)))
    /\ timers = {}
    /\ flushing = {[win |-> 1, doubts |-> doubts, stage |-> "http"]}
    /\ winSeq = 1
    /\ out = Out("timeout", NoConn, NoFrame, "Processing doubts")
    /\ LearnerStart
FallbackNext ==
  \/ \E f \in flushing, kind \in {"error", "bad_body", "no_json", "bad_json"} :
       DoubtsHttpDone(f, [kind |-> kind, topDoubts |-> <<>>])
  \/ \E f \in flushing, kind \in {"error", "no_json", "bad_json"} :
       DoubtsShellDone(f, [kind |-> kind, topDoubts |-> <<>>])
SpecFallback == InitFallback /\ [][FallbackNext]_vars

\* Two quizzes, about "t" and then about "u", generated one after the other
\* by the template, and a peer that answers a quiz it has been sent: the
\* answer frame may arrive after the next quiz was installed.
StaleNext ==
  \/ \E c \in 1 .. MaxPeers : Accept(c)
  \/ \E topic \in {"t", "u"} :
       /\ generating = {}
       /\ topic = IF genSeq = 0 THEN "t" ELSE "u"
       /\ CmdQuiz(topic)
  \/ \E g \in generating :
       QuizHttpDone(g, [kind |-> "no_json", quiz |-> createFallbackQuiz(g.topic)])
  \/ \E c \in ConnIds, answer \in StaleAnswers :
       /\ ~IsNull(currentQuiz)
       /\ answer.question \in {createFallbackQuiz(topic).question :
                                 topic \in IF Val(currentQuiz).id = 1 THEN {"t"} ELSE {"t", "u"}}
       /\ OnQuizAnswer(c, answer, TRUE)
SpecStale == Init /\ [][StaleNext]_vars

\* The learner alone: its commands, its socket's events, the frames that reach
\* it and the completions of its hint calls.
LearnerNext ==
  \/ LearnerBoot
  \/ LearnerCmdReconnect
  \/ \E s \in LearnerSockets : LearnerOnOpen(s) \/ LearnerOnError(s) \/ LearnerOnClose(s)
  \/ \E s \in LearnerSockets, kind \in FrameKinds : LearnerOnMessage(s, kind)
  \/ LearnerCmdHint
  \/ \E h \in pendingHints, reply \in HintReplies : HintHttpDone(h, reply)
  \/ \E h \in pendingHints, reply \in HintReplies : HintShellDone(h, reply)
  \/ \E answerIndex \in 0 .. 3 : LearnerCmdAnswer(answerIndex)
  \/ LearnerCmdToggle
  \/ LearnerCmdText
SpecLearner == Init /\ [][LearnerNext]_vars

\* ------------------------------------------------------------------ claims
\* The sockets that are open: their handlers are attached and run.
Live == {c \in ConnIds : readyState[c] = "open"}

\* The socket accepted last (NoConn before the first).
Accepted == {c \in ConnIds : readyState[c] # "none"}
Newest == IF Accepted = {} THEN NoConn ELSE CHOOSE c \in Accepted : \A d \in Accepted : d <= c

FrameOps == {"recv_message", "quiz_answer", "hint_request", "doubt_submission"}

\* C1: at most one peer connection is live at any time, and a frame is
\* processed only when it arrives on the connection accepted last.
C1_AtMostOneLive ==
  /\ Cardinality(Live) <= 1
  /\ out.op \in FrameOps => out.on = Newest

\* C2: a chat send after the session became Disconnected delivers no frame and
\* reports failure; a chat send while the connection accepted last is open
\* delivers one frame to it.
C2_SendFollowsNewest ==
  out.op = "say" =>
    /\ status = "Disconnected" => (out.sent = NoFrame /\ out.notice = "No learner connected")
    /\ (Newest # NoConn /\ readyState[Newest] = "open") =>
         out.sent = <<Frame(Newest, "message", "text")>>

\* C3: a step that installs a generated quiz sends the quiz envelope to an open
\* peer, or else shows the not-connected notice and leaves the active quiz, the
\* statistics and the statistics display as they were.
C3_InstallOnlyWhenSent ==
  [][out'.op = "quiz" =>
       \/ /\ ClientOpen
          /\ Len(out'.sent) = 1 /\ out'.sent[1].to = client /\ out'.sent[1].type = "quiz"
       \/ /\ out'.sent = NoFrame
          /\ out'.notice = "No learner connected"
          /\ UNCHANGED <<currentQuiz, quizStatistics, showStatistics>>]_vars

\* C4: starting a quiz leaves an empty answer list and a hint counter of zero,
\* and the statistics never count a record that was graded against another quiz
\* than the active one.
C4_NewQuizResets ==
  /\ out.op = "quiz" =>
       /\ ~IsNull(currentQuiz) /\ ~IsNull(quizStatistics)
       /\ Val(quizStatistics).answers = <<>>
       /\ Val(quizStatistics).hintsUsed = 0
       /\ calculateStatistics.totalAnswered = 0
       /\ calculateStatistics.hintsUsed = 0
  /\ ~IsNull(quizStatistics) =>
       LET answers == Val(quizStatistics).answers
       IN /\ \A i \in DOMAIN answers : answers[i].quiz = Val(currentQuiz).id
          /\ calculateStatistics.totalAnswered
               = Cardinality({i \in DOMAIN answers : answers[i].quiz = Val(currentQuiz).id})

\* A quiz was started over a quiz with a recorded answer and a counted hint.
C4_Witness ==
  /\ out.op = "quiz"
  /\ ~IsNull(out.replaced)
  /\ Len(Val(out.replaced).answers) > 0
  /\ Val(out.replaced).hintsUsed > 0

\* C5: a quiz_answer frame handled while no quiz is active appends no record,
\* sends no frame, shows 'No active quiz', and the process keeps running.
C5_AnswerWithoutQuizRejected ==
  (out.op = "quiz_answer" /\ IsNull(currentQuiz)) =>
    /\ alive
    /\ out.sent = NoFrame
    /\ out.notice = "No active quiz"
    /\ IsNull(quizStatistics)

\* A quiz_answer frame was handled with no quiz active.
C5_Witness == out.op = "quiz_answer" /\ IsNull(currentQuiz) /\ out.notice = "No active quiz"

\* C6: the active quiz's answer list holds at most one record (the part is run
\* with a single peer).
C6_OneAnswerPerQuiz ==
  ~IsNull(quizStatistics) =>
    \A i, j \in DOMAIN Val(quizStatistics).answers :
      Val(quizStatistics).answers[i].quiz = Val(quizStatistics).answers[j].quiz => i = j

\* C7: a quiz_answer that appends a record appends exactly one, graded by
\* comparing the answer's index with the quiz's correct index, and sends exactly
\* one quiz_feedback frame on the socket it arrived on, carrying the grade and,
\* when wrong, the correct letter among A-D and that option's text.
Letters == <<"A", "B", "C", "D">>
C7_AnswerGradedAndFedBack ==
  [][(out'.op = "quiz_answer" /\ quizStatistics' # quizStatistics) =>
       LET old == Val(quizStatistics).answers
           new == Val(quizStatistics').answers
           rec == new[Len(new)]
           quiz == Val(currentQuiz)
       IN /\ new = Append(old, rec)
          /\ rec.isCorrect = (rec.answerIndex = quiz.correct)
          /\ Len(out'.sent) = 1
          /\ out'.sent[1].to = out'.on
          /\ out'.sent[1].type = "quiz_feedback"
          /\ out'.sent[1].data.correct = rec.isCorrect
          /\ ~rec.isCorrect =>
               /\ quiz.correct \in 0 .. 3
               /\ quiz.correct + 1 \in DOMAIN quiz.options
               /\ out'.sent[1].data.message
                    = <<"Wrong answer. The correct answer is ", Letters[quiz.correct + 1], ". ">>
                        \o quiz.options[quiz.correct + 1]]_vars

\* C8: /doubt typed while the client socket is open empties the collected
\* list, opens the window, sends one doubt{active:true} frame to the client and
\* arms a new timer; typed otherwise it sends nothing and leaves the window, the
\* list and the timers as they were.
C8_DoubtNeedsOpenPeer ==
  [][out'.op = "doubt_cmd" =>
       IF client # NoConn /\ readyState[client] = "open"
         THEN /\ doubtCollection' = <<>>
              /\ isDoubtActive'
              /\ out'.sent = <<Frame(client, "doubt", [active |-> TRUE])>>
              /\ ~IsNull(doubtCollectionTimeout')
              /\ Val(doubtCollectionTimeout') \notin timers
              /\ timers' = {Val(doubtCollectionTimeout')}
         ELSE /\ out'.sent = NoFrame
              /\ out'.notice = "No learner connected"
              /\ UNCHANGED doubtVars]_vars

\* /doubt has opened a window and sent the signal.
C8_Witness ==
  /\ out.op = "doubt_cmd"
  /\ Len(out.sent) = 1
  /\ isDoubtActive
  /\ timers # {}

\* C9: at most one window timer is pending, it is the one
\* doubtCollectionTimeout refers to, and it was armed in the current window.
C9_OneTimer ==
  /\ Cardinality(timers) <= 1
  /\ \A h \in timers : doubtCollectionTimeout = Some(h) /\ h.win = winSeq

\* The timer of a second window was re-armed by a submission.
C9_Witness ==
  /\ out.op = "doubt_submission"
  /\ winSeq = 2
  /\ \E h \in timers : h.win = 2 /\ h.k > 0

\* C10: a doubt_submission handled while the window is not active shows the
\* notice and leaves the collected list and the timers unchanged.
C10_SubmissionOutsideWindow ==
  [][(out'.op = "doubt_submission" /\ ~isDoubtActive) =>
       /\ out'.notice = "Doubt collection not active"
       /\ out'.sent = NoFrame
       /\ UNCHANGED <<doubtCollection, timers, doubtCollectionTimeout, isDoubtActive>>]_vars

\* A submission was turned away while an earlier window was being summarized.
C10_Witness ==
  /\ out.op = "doubt_submission"
  /\ out.notice = "Doubt collection not active"
  /\ isProcessingDoubts
  /\ Len(doubtCollection) > 0

\* C11: /process typed on an open window with n >= 1 collected doubts starts one
\* flush that hands the summarizer exactly the collected doubts in submission
\* order, closes the window and leaves no timer pending; a timer expiry starts a
\* flush only from a window that is still open, so a flushed window is not
\* flushed again.
C11_ProcessFlushesAll ==
  [][/\ (out'.op = "process_cmd" /\ isDoubtActive /\ Len(doubtCollection) >= 1) =>
          /\ flushing' \ flushing = {[win |-> winSeq, doubts |-> doubtCollection, stage |-> "http"]}
          /\ \A k \in DOMAIN doubtCollection :
                doubtCollection[k].hasText => doubtCollection[k].text = TextAt(k)
          /\ ~isDoubtActive'
          /\ timers' = {}
          /\ IsNull(doubtCollectionTimeout')
     /\ (out'.op = "timeout" /\ flushing' # flushing) =>
          /\ isDoubtActive
          /\ \A f \in flushing : f.win # winSeq]_vars

\* /process has handed two doubts of a window to the summarizer.
C11_Witness ==
  /\ out.op = "process_cmd"
  /\ \E f \in flushing : f.win = winSeq /\ Len(f.doubts) = 2 /\ f.stage = "http"
  /\ ~isDoubtActive
  /\ timers = {}

\* C12: /process typed on an open window with no collected doubt closes the
\* window, leaves no timer pending and starts no flush.
C12_ProcessEmptyWindowCloses ==
  [][(out'.op = "process_cmd" /\ isDoubtActive /\ Len(doubtCollection) = 0) =>
       /\ ~isDoubtActive'
       /\ timers' = {}
       /\ flushing' = flushing]_vars

\* C13: an accepted submission appends its doubt to the collected list, the
\* list only grows while the window stays the same, and the flush a timer expiry
\* starts hands the summarizer the whole collected list of the current window.
C13_ExpiryFlushesAll ==
  [][/\ (out'.op = "doubt_submission" /\ out'.notice = "Doubt received") =>
          /\ Len(doubtCollection') = Len(doubtCollection) + 1
          /\ doubtCollection'[Len(doubtCollection')].text = TextAt(Len(doubtCollection'))
     /\ winSeq' = winSeq =>
          /\ Len(doubtCollection') >= Len(doubtCollection)
          /\ SubSeq(doubtCollection', 1, Len(doubtCollection)) = doubtCollection
     /\ (out'.op = "timeout" /\ flushing' # flushing) =>
          flushing' \ flushing = {[win |-> winSeq, doubts |-> doubtCollection, stage |-> "http"]}]_vars

\* A timer expiry has handed two doubts of a window to the summarizer.
C13_Witness ==
  /\ out.op = "timeout"
  /\ \E f \in flushing : f.win = winSeq /\ Len(f.doubts) = 2 /\ f.stage = "http"

\* C14: the stored top-doubts list never has more than 3 entries.
C14_AtMostThreeStored ==
  ~IsNull(topDoubts) => Len(Val(topDoubts)) <= 3

\* C15: the result a flush stores is never empty, and it is either a non-empty
\* list of summaries the backend gave (as given by the HTTP strategy, normalised
\* by the shell strategy) or exactly the local fallback grouping of the doubts
\* that were flushed.
C15_FailureStoresFallback ==
  [][out'.op = "flushed" =>
       \E f \in flushing \ flushing' :
         LET stored == Val(topDoubts')
             given == BackendTopDoubts \ {<<>>}
         IN /\ ~IsNull(topDoubts')
            /\ Len(stored) > 0
            /\ \/ stored \in given
               \/ \E l \in given : stored = [i \in DOMAIN l |-> ShellItem(l[i])]
               \/ Some(stored) = createFallbackDoubts(f.doubts)]_vars

\* C16: a frame that is not an envelope with a type field is shown as a chat
\* line whose text is the frame's raw content, and the process keeps running.
C16_RawFrameShown ==
  out.op = "recv_raw" => (alive /\ out.notice = out.raw)

\* C17: at most one quiz generation is in flight at any time.
C17_OneGenerationInFlight ==
  Cardinality(generating) <= 1

\* The templated quiz as the specification words it.
C18_TemplatedQuiz(topic) ==
  [question |-> <<"Quiz: ", topic>>,
   hasOptions |-> TRUE,
   options |-> <<<<"Option A about ", topic>>, <<"Option B about ", topic>>,
                 <<"Option C about ", topic>>, <<"Option D about ", topic>>>>,
   correct |-> 0]

\* C18: a generation request enters at the HTTP strategy and reaches the shell
\* strategy only through a failed HTTP callback (request error, body that is not
\* JSON, {...} that does not parse); every other callback resolves, with the
\* parsed object when there is one and else with the templated quiz 'Quiz:
\* {topic}', four labelled options, correct index 0; the quiz installed is what
\* the request resolved with.
C18_QuizStrategies ==
  [][/\ \A g \in generating' :
          \/ g \in generating
          \/ /\ g.stage = "http"
             /\ out'.op = "quiz_cmd"
             /\ \A h \in generating : h.id # g.id
          \/ /\ g.stage = "shell"
             /\ out'.op = "quiz_http"
             /\ [g EXCEPT !.stage = "http"] \in generating
     /\ \A g \in generating, reply \in QuizReplies :
          /\ g.stage = "http" =>
               LET r == generateQuizHttp(g.topic, reply)
               IN /\ reply.kind = "object" => r = Some(reply.quiz)
                  /\ reply.kind = "no_json" => r = Some(C18_TemplatedQuiz(g.topic))
                  /\ IsNull(r) <=> reply.kind \in {"error", "bad_body", "bad_json"}
          /\ g.stage = "shell" =>
               tryCommandLine(g.topic, reply)
                 = IF reply.kind = "object" THEN reply.quiz ELSE C18_TemplatedQuiz(g.topic)
     /\ out'.op = "quiz" =>
          \E g \in generating \ generating' :
            LET quiz == Val(currentQuiz')
                resolved == [question |-> quiz.question, hasOptions |-> quiz.hasOptions,
                             options |-> quiz.options, correct |-> quiz.correct]
            IN /\ quiz.id = g.id
               /\ resolved \in BackendQuizzes \cup {C18_TemplatedQuiz(g.topic)}]_vars

\* The templated quiz was installed while another request had fallen through
\* to the shell strategy.
C18_Witness ==
  /\ out.op = "quiz"
  /\ Val(currentQuiz).question = <<"Quiz: ", "t">>
  /\ Val(currentQuiz).correct = 0
  /\ \E g \in generating : g.stage = "shell"

\* C19: with no active quiz, or with an empty answer list, calculateStatistics
\* returns 0 answered, score 0, response time 0 and a count of 0 for each of
\* A-D; the hint counter is 0 with no quiz and the quiz's own otherwise.
C19_EmptyStatistics ==
  LET zero(hints) == [totalAnswered |-> 0, averageScore |-> 0, avgResponseTime |-> 0,
                      hintsUsed |-> hints, optionCounts |-> [k \in 0 .. 3 |-> 0]]
  IN /\ (IsNull(currentQuiz) \/ IsNull(quizStatistics)) => calculateStatistics = zero(0)
     /\ (~IsNull(currentQuiz) /\ ~IsNull(quizStatistics) /\ Val(quizStatistics).answers = <<>>) =>
          calculateStatistics = zero(Val(quizStatistics).hintsUsed)

\* A quiz is active with a counted hint and no answer yet.
C19_Witness ==
  /\ ~IsNull(currentQuiz)
  /\ ~IsNull(quizStatistics)
  /\ Val(quizStatistics).answers = <<>>
  /\ Val(quizStatistics).hintsUsed > 0

\* C20: for a non-empty answer list, totalAnswered is the number of records and
\* averageScore (in tenths) is the tenth nearest to 100 * correctCount /
\* totalAnswered, a half rounding up; it lies within 0..100.
C20_AverageScore ==
  (~IsNull(currentQuiz) /\ ~IsNull(quizStatistics) /\ Val(quizStatistics).answers # <<>>) =>
    LET answers == Val(quizStatistics).answers
        total == Len(answers)
        right == Cardinality({i \in DOMAIN answers : answers[i].isCorrect})
        score == calculateStatistics.averageScore
    IN /\ calculateStatistics.totalAnswered = total
       /\ 2 * total * score - 2000 * right > -total
       /\ 2 * total * score - 2000 * right <= total
       /\ score \in 0 .. 1000

\* The answers correct, wrong, correct give 66.7.
C20_Witness ==
  /\ ~IsNull(currentQuiz)
  /\ ~IsNull(quizStatistics)
  /\ Len(Val(quizStatistics).answers) = 3
  /\ Val(quizStatistics).answers[1].isCorrect
  /\ ~Val(quizStatistics).answers[2].isCorrect
  /\ Val(quizStatistics).answers[3].isCorrect
  /\ calculateStatistics.averageScore = 667

\* C21: each letter's count is the number of records whose answerIndex is that
\* letter's index, so the counts add up to at most totalAnswered, with equality
\* exactly when every record's index is in 0..3.
C21_OptionDistribution ==
  (~IsNull(currentQuiz) /\ ~IsNull(quizStatistics) /\ Val(quizStatistics).answers # <<>>) =>
    LET answers == Val(quizStatistics).answers
        counts == calculateStatistics.optionCounts
        sum == counts[0] + counts[1] + counts[2] + counts[3]
    IN /\ \A k \in 0 .. 3 :
            counts[k] = Cardinality({i \in DOMAIN answers : answers[i].answerIndex = k})
       /\ sum <= calculateStatistics.totalAnswered
       /\ sum = calculateStatistics.totalAnswered
            <=> \A i \in DOMAIN answers : answers[i].answerIndex \in 0 .. 3

\* C22: a close or error event of a peer socket leaves the quiz state (active
\* quiz, statistics with answer list and hint counter, pending generations) and
\* the doubt state (window flag, collected doubts, timer, stored top doubts,
\* pending flushes) unchanged.
C22_CloseKeepsQuizAndDoubts ==
  [][out'.op \in {"close", "error"} => UNCHANGED <<quizVars, doubtVars>>]_vars

\* The socket closed while a quiz with an answer and a hint was active and a
\* doubt window with a collected doubt and its timer was open.
C22_Witness ==
  /\ out.op = "close"
  /\ ~IsNull(quizStatistics)
  /\ Len(Val(quizStatistics).answers) > 0
  /\ Val(quizStatistics).hintsUsed > 0
  /\ isDoubtActive
  /\ Len(doubtCollection) > 0
  /\ timers # {}

\* C23: after an error event of a peer socket the session status is Error.
C23_ErrorSetsStatus ==
  out.op = "error" => status = "Error"

\* C24: a flush that is pending is eventually over, with the process running,
\* the processing state left and a result stored.
C24_FlushEventuallyDone ==
  (flushing # {}) ~> (flushing = {} /\ alive /\ ~isProcessingDoubts /\ ~IsNull(topDoubts))


\* C25: an operator chat message produces at most one frame, sent in the step
\* that handles the line and only to an open socket; a line entered while no
\* socket is open produces no frame, and no other step (a later connection
\* included) ever sends a frame of type 'message': nothing is queued.
C25_AtMostOnceNoQueue ==
  [][/\ out'.op = "say" =>
          /\ Len(out'.sent) <= 1
          /\ (\A c \in ConnIds : readyState[c] # "open") =>
                 out'.sent = NoFrame /\ out'.notice = "No learner connected"
          /\ \A i \in DOMAIN out'.sent :
                 /\ out'.sent[i].type = "message"
                 /\ out'.sent[i].to \in ConnIds
                 /\ readyState[out'.sent[i].to] = "open"
     /\ out'.op # "say" =>
          \A i \in DOMAIN out'.sent : out'.sent[i].type # "message"
     /\ out'.op = "connection" => out'.sent = NoFrame]_vars

\* A line was entered after the peer had left: no frame.
C25_Witness ==
  /\ out.op = "say"
  /\ out.sent = NoFrame
  /\ \E c \in ConnIds : readyState[c] = "closed"
  /\ \A c \in ConnIds : readyState[c] # "open"


\* C26: a doubt submission that is taken into the collection cancels the
\* pending timer and arms a fresh one, which is then the only timer; and the
\* timer whose expiry flushes a window is the one armed by the last doubt
\* taken into it.
C26_SubmissionRearmsTimer ==
  [][/\ (out'.op = "doubt_submission" /\ Len(doubtCollection') = Len(doubtCollection) + 1) =>
          LET timer == Handle(winSeq, Len(doubtCollection'))
          IN /\ timer \notin timers
             /\ timers' = {timer}
             /\ doubtCollectionTimeout' = Some(timer)
     /\ (out'.op = "timeout" /\ flushing' # flushing) =>
          \E h \in timers :
             /\ timers' = timers \ {h}
             /\ h = Handle(winSeq, Len(doubtCollection))]_vars


\* C27: the response time of every recorded answer is the answer's timestamp
\* minus the later of the quiz's start time and the start time carried in the
\* answer (0: the answer carries none).
C27_ResponseTimeFromLaterStart ==
  ~IsNull(quizStatistics) =>
     LET stats == Val(quizStatistics)
     IN \A i \in DOMAIN stats.answers :
           LET a == stats.answers[i]
               later == IF a.quizStartTime > stats.startTime THEN a.quizStartTime ELSE stats.startTime
           IN a.responseTime = a.timestamp - later


\* C28: avgResponseTime (in tenths of a second) is 0 when no record has a
\* positive response time; otherwise it is the tenth nearest to the mean of
\* the positive response times in seconds, a half rounding up. Records whose
\* response time is zero or negative do not enter the mean.
C28_AvgResponseTime ==
  (~IsNull(currentQuiz) /\ ~IsNull(quizStatistics) /\ Val(quizStatistics).answers # <<>>) =>
    LET answers == Val(quizStatistics).answers
        positive == {i \in DOMAIN answers : answers[i].responseTime > 0}
        n == Cardinality(positive)
        sum == SumTimes(answers, positive)
        avg == calculateStatistics.avgResponseTime
    IN IF n = 0
         THEN avg = 0
         ELSE /\ 200 * n * avg - 2 * sum > -(100 * n)
              /\ 200 * n * avg - 2 * sum <= 100 * n
              /\ avg > 0

\* Response times -500, 1500 and 2000 ms: the average is 1.8 s.
C28_Witness ==
  /\ ~IsNull(currentQuiz)
  /\ ~IsNull(quizStatistics)
  /\ Len(Val(quizStatistics).answers) = 3
  /\ {Val(quizStatistics).answers[i].responseTime : i \in 1 .. 3} = {-500, 1500, 2000}
  /\ calculateStatistics.avgResponseTime = 18

\* No record has a positive response time.
C28_WitnessNonePositive ==
  /\ ~IsNull(currentQuiz)
  /\ ~IsNull(quizStatistics)
  /\ Len(Val(quizStatistics).answers) = 2
  /\ \A i \in 1 .. 2 : Val(quizStatistics).answers[i].responseTime <= 0
  /\ calculateStatistics.avgResponseTime = 0


\* The total of the counts of a list of groups.
RECURSIVE C29_SumCounts(_)
C29_SumCounts(groups) ==
  IF groups = <<>> THEN 0 ELSE Head(groups).count + C29_SumCounts(Tail(groups))

\* groups is a grouping of doubts by the lower-case first 30 characters of the
\* text: at most 3 groups with different keys, counts in non-increasing order,
\* each group with the text of the first doubt that has its key and the number
\* of doubts that have it; every key appears when there are at most 3.
C29_IsGroupingOf(doubts, groups) ==
  LET keyOf(text) == ToLowerCase(SubSeq(text, 1, IF Len(text) < 30 THEN Len(text) ELSE 30))
      keys == {keyOf(doubts[j].text) : j \in DOMAIN doubts}
  IN /\ Len(groups) <= 3
     /\ \A i \in DOMAIN groups :
          /\ groups[i].count >= 1
          /\ \A j \in DOMAIN groups : i < j => groups[i].count >= groups[j].count
          /\ \A j \in DOMAIN groups : i # j => keyOf(groups[i].details) # keyOf(groups[j].details)
          /\ \E j \in DOMAIN doubts :
               /\ groups[i].details = doubts[j].text
               /\ \A k \in 1 .. j - 1 : keyOf(doubts[k].text) # keyOf(doubts[j].text)
          /\ groups[i].count =
               Cardinality({j \in DOMAIN doubts : keyOf(doubts[j].text) = keyOf(groups[i].details)})
     /\ C29_SumCounts(groups) <= Len(doubts)
     /\ Cardinality(keys) <= 3 => C29_SumCounts(groups) = Len(doubts)

\* C29: the list createFallbackDoubts returns, which a flush stores when the
\* backend gives no usable answer, is a grouping of the flushed doubts by the
\* lower-case first 30 characters: at most 3 groups, counts non-increasing and
\* at least 1, details the first doubt of the group, counts adding up to at
\* most the number of doubts and to exactly that number when there are at most
\* 3 groups; for an empty list it is empty.
C29_FallbackGrouping ==
  [][/\ createFallbackDoubts(<<>>) = Some(<<>>)
     /\ out'.op = "flushed" =>
          \A f \in flushing \ flushing' :
             /\ topDoubts' = createFallbackDoubts(f.doubts)
             /\ C29_IsGroupingOf(f.doubts, Val(topDoubts'))]_vars


\* C30: a quiz that is installed as the active quiz and sent in a quiz
\* envelope has a question, an options array of exactly 4 entries and a
\* correct index within 0..3.
C30_SentQuizWellFormed ==
  \A i \in DOMAIN out.sent :
     (out.sent[i].type = "quiz" /\ currentQuiz = Some(out.sent[i].data)) =>
        LET quiz == out.sent[i].data
        IN /\ quiz.question # <<>>
           /\ quiz.hasOptions
           /\ Len(quiz.options) = 4
           /\ quiz.correct \in 0 .. 3


\* C31: a hint_request frame handled while a quiz is active adds exactly one to
\* that quiz's hint counter, sends no frame and leaves the answer list and the
\* quiz as they are; handled with no active quiz it changes nothing.
C31_HintRequestCounts ==
  [][out'.op = "hint_request" =>
       /\ out'.sent = NoFrame
       /\ currentQuiz' = currentQuiz
       /\ IF ~IsNull(currentQuiz) /\ ~IsNull(quizStatistics)
            THEN /\ ~IsNull(quizStatistics')
                 /\ Val(quizStatistics').hintsUsed = Val(quizStatistics).hintsUsed + 1
                 /\ Val(quizStatistics').answers = Val(quizStatistics).answers
                 /\ Val(quizStatistics').startTime = Val(quizStatistics).startTime
            ELSE /\ quizStatistics' = quizStatistics
                 /\ <<alive, connVars, isGeneratingQuiz, generating, showStatistics, doubtVars>>'
                      = <<alive, connVars, isGeneratingQuiz, generating, showStatistics, doubtVars>>]_vars

\* A hint request has been counted for a quiz that has an answer.
C31_Witness ==
  /\ out.op = "hint_request"
  /\ ~IsNull(currentQuiz)
  /\ ~IsNull(quizStatistics)
  /\ Val(quizStatistics).hintsUsed = 1
  /\ Len(Val(quizStatistics).answers) > 0


\* C33: a quiz becomes active when it is started, stays the active quiz across
\* answers and hint requests, and closing it leaves no active quiz while its
\* statistics object is kept; an answer handled while no quiz is active is
\* rejected.
C33_QuizLifecycle ==
  [][/\ out'.op = "quiz" => ~IsNull(currentQuiz')
     /\ out'.op \in {"quiz_answer", "hint_request"} => currentQuiz' = currentQuiz
     /\ out'.op = "close_stats" =>
          /\ IsNull(currentQuiz')
          /\ quizStatistics' = quizStatistics
     /\ (out'.op = "quiz_answer" /\ IsNull(currentQuiz)) =>
          /\ out'.notice = "No active quiz"
          /\ quizStatistics' = quizStatistics]_vars


\* C35: whenever the doubt window is active, a timer is pending and it is the
\* one doubtCollectionTimeout refers to.
C35_ActiveWindowHasTimer ==
  (alive /\ isDoubtActive) =>
     /\ ~IsNull(doubtCollectionTimeout)
     /\ Val(doubtCollectionTimeout) \in timers


\* C36: when the summarization of a flushed window completes while a newer
\* window is collecting, the completion leaves the newer window's state alone:
\* the stored top doubts stay cleared and the processing flag is not altered.
C36_FlushWritesOwnWindowOnly ==
  [][out'.op = "flushed" =>
       \A f \in flushing \ flushing' :
          (isDoubtActive /\ f.win < winSeq) =>
             /\ topDoubts' = topDoubts
             /\ IsNull(topDoubts')
             /\ isProcessingDoubts' = isProcessingDoubts
             /\ isDoubtActive']_vars


\* C37: an active doubt window eventually becomes inactive, when timers fire
\* and flush completions arrive.
C37_WindowEventuallyCloses ==
  isDoubtActive ~> ~isDoubtActive


\* C32: the learner creates a socket only when it starts and on its reconnect
\* command, and on that command only when its status is Disconnected or Error;
\* otherwise the command reports 'Already connected' and changes nothing.
\* connect() leaves the previous socket detached and closing or closed, and
\* only an event of the learner's current socket changes the status.
C32_ReconnectOnCommand ==
  [][LET created == {s \in LearnerSockets :
                       sockets[s].readyState = "none" /\ sockets'[s].readyState # "none"}
         lost == learner.status \in {"Disconnected", "Error"}
     IN /\ created # {} => (shown'.op = "boot" \/ (shown'.op = "reconnect" /\ lost))
        /\ (shown'.op = "reconnect" /\ ~lost) =>
              /\ shown'.notice = "Already connected"
              /\ sockets' = sockets
              /\ learner' = learner
        /\ (shown'.op = "reconnect" /\ lost) =>
              /\ created = {learner'.ws}
              /\ learner'.status = "Connecting..."
              /\ \A s \in LearnerSockets \ {learner'.ws} :
                    /\ ~sockets'[s].listeners
                    /\ sockets'[s].readyState \in {"none", "closing", "closed"}
        /\ (shown'.op \in {"open", "error", "close"} /\ learner'.status # learner.status) =>
              shown'.on = learner.ws
        /\ educatorVars' # educatorVars => sockets' = sockets]_vars

\* After a reconnect the earlier socket's close event arrives and the status
\* stays Connected.
C32_Witness ==
  /\ shown.op = "close"
  /\ shown.on # learner.ws
  /\ learner.ws # NoSocket
  /\ sockets[learner.ws].readyState = "open"
  /\ learner.status = "Connected"


\* C38: on the learner, a stored hint was generated for the question of the
\* displayed quiz, and at most one hint generation is in flight.
C38_HintBelongsToQuiz ==
  /\ ~IsNull(learner.quizHint) =>
        /\ ~IsNull(learner.currentQuiz)
        /\ Val(learner.quizHint).question = Val(learner.currentQuiz).question
  /\ Cardinality(pendingHints) <= 1


\* C39: a quiz_feedback frame handled after the learner answered the displayed
\* quiz is recorded as the answer feedback of that quiz, and an input A-D for
\* a quiz that has its feedback is refused with 'You have already answered this quiz' and sends no
\* frame.
C39_FeedbackRecorded ==
  [][/\ (/\ shown'.op = "message" /\ shown'.frame = "quiz_feedback"
         /\ ~IsNull(learner.currentQuiz) /\ learner.answerSent) =>
          ~IsNull(learner'.answerFeedback)
     /\ (shown'.op = "answer" /\ ~IsNull(learner.currentQuiz) /\ ~IsNull(learner.answerFeedback)) =>
          /\ shown'.sent = NoFrame
          /\ shown'.notice = "You have already answered this quiz"]_vars


\* C40: on the learner, no step taken while a quiz is displayed sends a chat
\* message envelope, and an ordinary input entered after the displayed quiz
\* was answered, on an open socket, is sent as a chat message.
C40_ChatAroundQuiz ==
  [][/\ ~IsNull(learner.currentQuiz) =>
          \A i \in DOMAIN shown'.sent : shown'.sent[i].type # "message"
     /\ (shown'.op = "text" /\ learner.answerSent /\ LearnerOpen) =>
          /\ Len(shown'.sent) = 1
          /\ shown'.sent[1].type = "message"]_vars


\* C34: every record in the active answer list comes from an answer to the
\* active quiz: the question the answer frame carried is the active quiz's.
C34_AnswersBelongToActiveQuiz ==
  (~IsNull(currentQuiz) /\ ~IsNull(quizStatistics)) =>
     \A i \in DOMAIN Val(quizStatistics).answers :
        Val(quizStatistics).answers[i].question = Val(currentQuiz).question

====
